---------------------------- MODULE Spec2Model ----------------------------
(***************************************************************************)
(* The useIMUHeight hook, frozen-gravity / peak-displacement variant       *)
(* (src/unnamed/part_000 lines 304-628), as a state machine.               *)
(*                                                                         *)
(* Numbers.  The hook computes in IEEE doubles; the model computes in      *)
(* fixed point, rounding every multiplication/division to the nearest      *)
(* unit (ties upward, as Math.round does):                                 *)
(*     acceleration, gravity     1 unit = 0.001 m/s^2                      *)
(*     rotation rate             1 unit = 0.1 deg/s                        *)
(*     time (dt, interval, now)  1 unit = 1 ms                             *)
(*     velocity                  1 unit = 0.01 cm/s                        *)
(*     displacement, peak        1 unit = 0.00001 cm                       *)
(*     heightCm, heightInches    1 unit = 0.1 (cm, in)                     *)
(*     confidence                1 unit = 0.1 percent                      *)
(*     unit vectors              1 unit = 0.001                            *)
(* Sensor readings are finite numbers (WebIDL double), already coalesced   *)
(* by the code's `?? 0`.                                                   *)
(***************************************************************************)
EXTENDS Integers, Naturals, Sequences, FiniteSets, TLC

VARIABLES
    measurementState,   \* useState<MeasurementState>            (337-346)
    error,              \* useState<string | null>               (348)
    permissionGranted,  \* useState(false)                       (349)
    refs,               \* the useRef cells                      (352-359)
    listeners,          \* devicemotion listeners attached by startMeasurement
    imuOnMotion,        \* window._imu_onMotion is set           (558, 565, 583)
    calibs,             \* open calibration windows, oldest first: their `samples`
    now,                \* performance.now(), ms
    staleCalibs,        \* history: open windows that were opened before the last reset
    statRunMs,          \* history: sum of dt over the current run of stationary samples
    probe,              \* history: locals of the last onMotion invocation, and
                        \*   whether the zero-velocity update has fired in the
                        \*   current run of stationary samples
    lastStart,          \* history: the phase the running session was started from,
                        \*   whether the session before it had measured a height,
                        \*   and the gravity estimate it started with
    nEvents             \* history: devicemotion events delivered so far

vars == <<measurementState, error, permissionGranted, refs, listeners,
          imuOnMotion, calibs, now, staleCalibs, statRunMs, probe, lastStart,
          nEvents>>

-----------------------------------------------------------------------------
(* Bounds of the model *)

MaxEvents == 2          \* devicemotion events delivered in a behaviour of Spec
MaxListeners == 2       \* onMotion listeners attached at the same time
MaxCalibs == 1          \* calibration windows open at the same time
MaxStreamEvents == 15   \* devicemotion events delivered in a behaviour of StreamSpec
MaxVaried == 2          \* StreamSpec: samples of a session before the device is held still
MaxFlatEvents == 30     \* devicemotion events delivered in a behaviour of FlatSpec
MaxFlatCalib == 2       \* FlatSpec: samples collected by a calibration window
MaxSettleEvents == 13   \* devicemotion events delivered in a behaviour of SettleSpec
MaxImportedEvents == 5  \* devicemotion events delivered in a behaviour of ImportedSpec
MaxLiftEvents == 3      \* devicemotion events delivered in a behaviour of LiftSpec
MaxTimingEvents == 4    \* devicemotion events delivered in a behaviour of TimingSpec
MaxConservativeEvents == 72  \* devicemotion events delivered in a behaviour of ConservativeSpec
MaxConservativeVaried == 3   \* ConservativeSpec: events of a session before it climbs or rests
MaxLift == 3000         \* LiftSpec: the strongest push, in steps of LiftStep

-----------------------------------------------------------------------------
(* Program constants, in model units *)

Lpf == 1                    \* lpf = 0.01, in hundredths
GUpdateMaxALin == 200       \* aLinMagCandidate < 0.2
GUpdateMaxRot == 30         \* rotMag < 3
StatMaxAVert == 30          \* Math.abs(aVert) < 0.03
StatMaxRot == 7             \* rotMag < 0.7
StatMaxALin == 60           \* aLinMag < 0.06
ZuptMs == 500               \* stationarySamples * dt >= 0.5
DecayDen == 2000            \* velocity *= 0.9995, i.e. v - v/2000
DtMin == 5                  \* Math.max(0.005, ...)
DtMax == 50                 \* Math.min(0.05, dt)
DtDefault == 20             \* 0.02 for the first event
MaxDisp == 30000000         \* 300 cm
GravityZ == 9810            \* { x: 0, y: 0, z: 9.81 }
UnitScale == 1000           \* fixed-point scale of the components of `up`
StartClock == 1000          \* performance.now() at the first observation (any value > 0)

-----------------------------------------------------------------------------
(* Arithmetic *)

Abs(a) == IF a < 0 THEN -a ELSE a

Min(a, b) == IF a < b THEN a ELSE b

Max(a, b) == IF a > b THEN a ELSE b

\* a / b rounded to the nearest integer, ties upward (b > 0)
RoundDiv(a, b) == (a + b \div 2) \div b

RECURSIVE SqrtSearch(_, _, _)
SqrtSearch(n, lo, hi) ==
    IF hi - lo <= 1 THEN lo
    ELSE LET mid == (lo + hi) \div 2
         IN  IF mid * mid <= n THEN SqrtSearch(n, mid, hi)
                               ELSE SqrtSearch(n, lo, mid)

\* floor(sqrt(n)) for 0 <= n < 2^31
ISqrt(n) ==
    SqrtSearch(n, 0, IF n < 4096 THEN 64 ELSE IF n < 16777216 THEN 4096 ELSE 46341)

-----------------------------------------------------------------------------
(* Vec3 *)

Vec(x, y, z) == [x |-> x, y |-> y, z |-> z]

vecAdd(a, b) == Vec(a.x + b.x, a.y + b.y, a.z + b.z)

\* vecScale(a, num/den)
vecScale(a, num, den) ==
    Vec(RoundDiv(a.x * num, den), RoundDiv(a.y * num, den), RoundDiv(a.z * num, den))

\* Euclidean length, rounded down.  Components beyond 25 m/s^2 are measured
\* in whole m/s^2 so that the squares stay within the integer range.
vecLen(a) ==
    LET big == Max(Abs(a.x), Max(Abs(a.y), Abs(a.z))) > 25000
        s   == IF big THEN 1000 ELSE 1
        x   == a.x \div s
        y   == a.y \div s
        z   == a.z \div s
    IN  ISqrt(x * x + y * y + z * z) * s

vecSub(a, b) == Vec(a.x - b.x, a.y - b.y, a.z - b.z)

\* the dot product of a vector with a unit vector (scaled by UnitScale)
vecDot(a, u) == RoundDiv(a.x * u.x + a.y * u.y + a.z * u.z, UnitScale)

\* a / |a| scaled by UnitScale; a zero vector is divided by 1
vecNorm(a) ==
    LET len == vecLen(a)
        l   == IF len = 0 THEN 1 ELSE len
    IN  Vec(RoundDiv(a.x * UnitScale, l), RoundDiv(a.y * UnitScale, l),
            RoundDiv(a.z * UnitScale, l))

-----------------------------------------------------------------------------
(* Unit conversion and the confidence heuristic *)

\* cm and the result's cm and inches are in tenths
toFeetInches(cm) ==
    LET rem == (cm * 10) % 3048                 \* (totalInches % 12), in 1/254 in
    IN  [feet   |-> (cm * 10) \div 3048,        \* floor(cm / 2.54 / 12)
         inches |-> RoundDiv(rem * 10, 254),    \* round((totalInches % 12) * 10) / 10
         cm     |-> cm]                         \* round(cm * 10) / 10

\* Math.min(95, 60 + Math.min(35, (cmRounded / 200) * 35)), in 1/400 percent
ConfBase(cmRounded) == Min(95 * 400, 60 * 400 + Min(35 * 400, 7 * cmRounded))

\* a mutant of Conf: the bonus of a stationary sample is missing
ConfNoBonus(cmRounded, stationary) == ConfBase(cmRounded)

\* stationary ? Math.min(99.5, confBase + 3) : confBase, in 1/400 percent
Conf(cmRounded, stationary) ==
    IF stationary THEN Min(39800, ConfBase(cmRounded) + 3 * 400)
                  ELSE ConfBase(cmRounded)

-----------------------------------------------------------------------------
(* The motion listener that startMeasurement creates *)

NoVec == Vec(0, 0, 0)

NoProbe ==
    [processed |-> FALSE, dt |-> 0, stationary |-> FALSE, allowGUpdate |-> FALSE,
     gPrev |-> NoVec, gMeas |-> NoVec, rotMag |-> 0, aVert |-> 0,
     zuptRun |-> FALSE]

\* dt before clamping, ms: e.interval, else the wall-clock delta, else 0.02 s
RawDt(r, e, tsNow) ==
    IF e.interval > 0 THEN e.interval
    ELSE IF r.lastTimestampRef # 0 THEN tsNow - r.lastTimestampRef
    ELSE DtDefault

\* a mutant of ClampDt: line 473 is missing
ClampDtMissing(dt) == dt

\* line 473
ClampDt(dt) == Max(DtMin, Min(DtMax, dt))

\* rr ? sqrt(alpha^2 + beta^2 + gamma^2) : 0
RotMag(e) == IF e.hasRr THEN vecLen(e.rr) ELSE 0

GCandidate(gPrev, gMeas) == vecAdd(vecScale(gPrev, 100 - Lpf, 100), vecScale(gMeas, Lpf, 100))

\* a mutant of AllowGUpdate: the rotation rate is not looked at
AllowGUpdateNoRotation(gPrev, gMeas, rotMag) ==
    vecLen(vecSub(gMeas, GCandidate(gPrev, gMeas))) < GUpdateMaxALin

\* a mutant of AllowGUpdate: the candidate is accepted only within 0.02 m/s^2
AllowGUpdateStrict(gPrev, gMeas, rotMag) ==
    vecLen(vecSub(gMeas, GCandidate(gPrev, gMeas))) < 20 /\ rotMag < GUpdateMaxRot

AllowGUpdate(gPrev, gMeas, rotMag) ==
    vecLen(vecSub(gMeas, GCandidate(gPrev, gMeas))) < GUpdateMaxALin /\ rotMag < GUpdateMaxRot

\* a mutant of GNew: the estimate is never frozen
GNewAlways(gPrev, gMeas, allowGUpdate) == GCandidate(gPrev, gMeas)

GNew(gPrev, gMeas, allowGUpdate) ==
    IF allowGUpdate THEN GCandidate(gPrev, gMeas) ELSE gPrev

\* a mutant of AVert: gravity is not removed from the measured acceleration
AVertNoGravityRemoval(aLin, gNew) ==
    vecDot(vecAdd(aLin, gNew), vecNorm(Vec(-gNew.x, -gNew.y, -gNew.z)))

\* aVert = vecDot(aLin, up), in 0.001 m/s^2
AVert(aLin, gNew) == vecDot(aLin, vecNorm(Vec(-gNew.x, -gNew.y, -gNew.z)))

\* a mutant of Stationary: the rotation rate is not looked at
StationaryNoRotation(aVert, rotMag, aLinMag) ==
    Abs(aVert) < StatMaxAVert /\ aLinMag < StatMaxALin

Stationary(aVert, rotMag, aLinMag) ==
    Abs(aVert) < StatMaxAVert /\ rotMag < StatMaxRot /\ aLinMag < StatMaxALin

StationaryCount(count, stationary) == IF stationary THEN count + 1 ELSE 0

\* velocityRef.current *= 0.9995
Decay(v) == v - RoundDiv(v, DecayDen)

Zupt(count, dt) == count * dt >= ZuptMs

\* a mutant of Velocity: the damping is applied to every sample, as in
\* src/src/hooks/useIMUHeight.ts
VelocityDecayAlways(v, aVert, dt, stationary, count) ==
    LET v1 == v + RoundDiv(aVert * dt, 100)
    IN  IF Zupt(count, dt) THEN 0 ELSE Decay(v1)

\* lines 509-519: integrate, damp when moving, zero-velocity update
Velocity(v, aVert, dt, stationary, count) ==
    LET v1 == v + RoundDiv(aVert * dt, 100)
        v2 == IF stationary THEN v1 ELSE Decay(v1)
    IN  IF Zupt(count, dt) THEN 0 ELSE v2

\* a mutant of Displacement: the signed velocity is integrated
DisplacementSigned(d, v, dt) ==
    LET d1 == d + v * dt
    IN  IF d1 < 0 THEN 0 ELSE d1

\* lines 522-524, before the clamp at 300
Displacement(d, v, dt) ==
    LET d1 == d + Max(0, v) * dt
    IN  IF d1 < 0 THEN 0 ELSE d1

\* a mutant of ClampDisp: the clamp at 300 cm is missing
ClampDispMissing(d) == d

ClampDisp(d) == IF d > MaxDisp THEN MaxDisp ELSE d

\* a mutant of Integrate: the signed velocity is integrated and the current
\* displacement is what is reported, as in src/src/hooks/useIMUHeight.ts
IntegrateCurrent(d, p, v, dt) ==
    LET d1 == d + v * dt
        d2 == IF d1 < 0 THEN 0 ELSE d1
    IN  [disp |-> ClampDisp(d2), peak |-> ClampDisp(d2)]

\* lines 522-529: the new displacement and peak
Integrate(d, p, v, dt) ==
    LET d1 == Displacement(d, v, dt)
    IN  [disp |-> ClampDisp(d1), peak |-> ClampDisp(Max(p, d1))]

\* a mutant of Publish: the height is cut to 0.1 cm, not rounded
PublishFloor(ms, peak, stationary) ==
    LET cm == peak \div 10000
        fi == toFeetInches(cm)
    IN  [ms EXCEPT !.heightCm = fi.cm, !.heightFt = fi.feet, !.heightInches = fi.inches,
                   !.confidence = RoundDiv(Conf(fi.cm, stationary), 40),
                   !.debugInfo = "Sample"]

\* the snapshot fields set by lines 533-547
Publish(ms, peak, stationary) ==
    LET cm == RoundDiv(peak, 10000)
        fi == toFeetInches(cm)
    IN  [ms EXCEPT !.heightCm = fi.cm, !.heightFt = fi.feet, !.heightInches = fi.inches,
                   !.confidence = RoundDiv(Conf(fi.cm, stationary), 40),
                   !.debugInfo = "Sample"]

\* onMotion from line 473 on: the event carries a reading.  st carries the
\* refs, the published state and the history variables it maintains.
onMotionSample(st, e, tsNow) ==
    LET r      == st.refs
        dt     == ClampDt(RawDt(r, e, tsNow))
        gPrev  == r.gravityRef
        gMeas  == e.ag
        rotMag == RotMag(e)
        allow  == AllowGUpdate(gPrev, gMeas, rotMag)
        gNew   == GNew(gPrev, gMeas, allow)
        aLin   == vecSub(gMeas, gNew)
        aVert  == AVert(aLin, gNew)
        stat   == Stationary(aVert, rotMag, vecLen(aLin))
        count  == StationaryCount(r.stationarySamplesRef, stat)
        vel    == Velocity(r.velocityRef, aVert, dt, stat, count)
        int    == Integrate(r.displacementRef, r.peakDisplacementRef, vel, dt)
    IN  [refs  |-> [r EXCEPT !.lastTimestampRef = tsNow,
                             !.gravityRef = gNew,
                             !.stationarySamplesRef = count,
                             !.velocityRef = vel,
                             !.displacementRef = int.disp,
                             !.peakDisplacementRef = int.peak,
                             !.totalSamplesRef = r.totalSamplesRef + 1],
         ms    |-> Publish(st.ms, int.peak, stat),
         run   |-> IF stat THEN st.run + dt ELSE 0,
         probe |-> [processed |-> TRUE, dt |-> dt, stationary |-> stat,
                    allowGUpdate |-> allow,
                    gPrev |-> gPrev, gMeas |-> gMeas, rotMag |-> rotMag,
                    aVert |-> aVert,
                    zuptRun |-> stat /\ (Zupt(count, dt) \/ st.probe.zuptRun)]]

\* a mutant of onMotion: the test of line 472 is missing and an absent
\* reading is taken as the zero vector
onMotionUnguarded(st, e, tsNow) == onMotionSample(st, e, tsNow)

\* One invocation of onMotion on event e at time tsNow: lines 465-472, then
\* the rest if the event carries a reading.
onMotion(st, e, tsNow) ==
    IF ~e.hasAg
    THEN [st EXCEPT !.refs.lastTimestampRef = tsNow, !.probe.processed = FALSE]
    ELSE onMotionSample(st, e, tsNow)

\* the event is dispatched to each of the n attached listeners in turn
RECURSIVE Dispatch(_, _, _, _)
Dispatch(st, e, tsNow, n) ==
    IF n = 0 THEN st ELSE Dispatch(onMotion(st, e, tsNow), e, tsNow, n - 1)

-----------------------------------------------------------------------------
(* The state after the hook is constructed and mounted *)

NoError == "null"

InitialState ==
    [isCalibrating |-> FALSE, isMeasuring |-> FALSE, isComplete |-> FALSE,
     heightCm |-> 0, heightFt |-> 0, heightInches |-> 0, confidence |-> 0,
     debugInfo |-> ""]

DefaultGravity == Vec(0, 0, GravityZ)

InitialRefs ==
    [gravityRef |-> DefaultGravity, lastTimestampRef |-> 0, velocityRef |-> 0,
     displacementRef |-> 0, peakDisplacementRef |-> 0, stationarySamplesRef |-> 0,
     totalSamplesRef |-> 0, hasCalibratedRef |-> FALSE]

\* SessionPhase, read off the flags and hasCalibratedRef
Phase ==
    IF measurementState.isCalibrating THEN "Calibrating"
    ELSE IF measurementState.isMeasuring THEN "Measuring"
    ELSE IF measurementState.isComplete THEN "Complete"
    ELSE IF refs.hasCalibratedRef THEN "Calibrated"
    ELSE "Idle"

NoStart == [from |-> "", moved |-> FALSE, gravity |-> NoVec]

Init ==
    /\ measurementState = InitialState
    /\ error = NoError
    /\ permissionGranted = FALSE
    /\ refs = InitialRefs
    /\ listeners = 0
    /\ imuOnMotion = FALSE
    /\ calibs = <<>>
    /\ now = StartClock
    /\ staleCalibs = 0
    /\ statRunMs = 0
    /\ probe = NoProbe
    /\ lastStart = NoStart
    /\ nEvents = 0

-----------------------------------------------------------------------------
(* requestSensorPermission and calibrate *)

PermissionOutcomes == {"granted", "motionDenied", "orientationDenied", "threw"}

PermissionError(o) ==
    CASE o = "granted"           -> NoError
      [] o = "motionDenied"      -> "Motion sensor permission denied"
      [] o = "orientationDenied" -> "Orientation sensor permission denied"
      [] OTHER                   -> "Failed to request sensor permissions"

\* The platform's answer o is an input; the two platform prompts awaited
\* inside are taken as one step.
requestSensorPermission(o) ==
    /\ permissionGranted' = (permissionGranted \/ o = "granted")
    /\ error' = PermissionError(o)
    /\ probe' = NoProbe
    /\ UNCHANGED <<measurementState, refs, listeners, imuOnMotion, calibs, now,
                   staleCalibs, statRunMs, lastStart, nEvents>>

\* a mutant of calibrate: the test of line 395 reads the permission that the
\* request has just set, not the value the closure captured
calibrateFreshPermission(o) ==
    IF ~permissionGranted /\ o # "granted"
    THEN requestSensorPermission(o)
    ELSE /\ Len(calibs) < MaxCalibs
         /\ permissionGranted' = TRUE
         /\ error' = NoError
         /\ measurementState' = [measurementState EXCEPT !.isCalibrating = TRUE,
                                                         !.debugInfo = "Calibrating"]
         /\ calibs' = Append(calibs, <<>>)
         /\ probe' = NoProbe
         /\ UNCHANGED <<refs, listeners, imuOnMotion, now, staleCalibs, statRunMs,
                        lastStart, nEvents>>

\* calibrate up to its `await new Promise(setTimeout 1500)`.  The closure's
\* permissionGranted is the value of the render that created it, so the
\* test of line 395 sees the value line 393 saw.
calibrate(o) ==
    IF ~permissionGranted
    THEN requestSensorPermission(o)
    ELSE /\ Len(calibs) < MaxCalibs
         /\ error' = NoError
         /\ measurementState' = [measurementState EXCEPT !.isCalibrating = TRUE,
                                                         !.debugInfo = "Calibrating"]
         /\ calibs' = Append(calibs, <<>>)
         /\ probe' = NoProbe
         /\ UNCHANGED <<permissionGranted, refs, listeners, imuOnMotion, now,
                        staleCalibs, statRunMs, lastStart, nEvents>>

RECURSIVE vecSum(_)
\* samples.reduce((acc, s) => vecAdd(acc, s), {0,0,0})
vecSum(samples) ==
    IF samples = <<>> THEN NoVec
    ELSE vecAdd(vecSum(SubSeq(samples, 1, Len(samples) - 1)), samples[Len(samples)])

\* a mutant of Average: the first sample is taken for the mean
AverageFirst(samples) == samples[1]

\* vecScale(avg, 1 / samples.length)
Average(samples) == vecScale(vecSum(samples), 1, Len(samples))

\* calibrate from the timer's firing to its end, for the oldest open window
calibrateTimeout ==
    /\ calibs # <<>>
    /\ LET samples == Head(calibs)
       IN  IF Len(samples) = 0
           THEN /\ error' = "No sensor data during calibration"
                /\ measurementState' = [measurementState EXCEPT !.isCalibrating = FALSE]
                /\ refs' = refs
           ELSE /\ refs' = [refs EXCEPT !.gravityRef = Average(samples),
                                        !.hasCalibratedRef = TRUE]
                /\ measurementState' =
                       [measurementState EXCEPT !.isCalibrating = FALSE,
                            !.isMeasuring = FALSE, !.isComplete = FALSE,
                            !.heightCm = 0, !.heightFt = 0, !.heightInches = 0,
                            !.confidence = 0, !.debugInfo = "Calibrated"]
                /\ error' = error
    /\ calibs' = Tail(calibs)
    /\ staleCalibs' = Max(0, staleCalibs - 1)
    /\ probe' = NoProbe
    /\ UNCHANGED <<permissionGranted, listeners, imuOnMotion, now, statRunMs,
                   lastStart, nEvents>>

-----------------------------------------------------------------------------
(* startMeasurement, stopMeasurement, resetMeasurement *)

\* a mutant of StartRefs: the peak of the previous session is kept
StartRefsKeepPeak(r) ==
    [r EXCEPT !.displacementRef = 0, !.velocityRef = 0, !.lastTimestampRef = 0,
              !.stationarySamplesRef = 0, !.totalSamplesRef = 0]

\* lines 443-448
StartRefs(r) ==
    [r EXCEPT !.displacementRef = 0, !.peakDisplacementRef = 0, !.velocityRef = 0,
              !.lastTimestampRef = 0, !.stationarySamplesRef = 0, !.totalSamplesRef = 0]

\* a mutant of StartState: the result of the previous session is kept
StartStateKeepHeight(ms) ==
    [ms EXCEPT !.isMeasuring = TRUE, !.isComplete = FALSE, !.debugInfo = "Measuring"]

\* lines 450-459
StartState(ms) ==
    [ms EXCEPT !.isMeasuring = TRUE, !.isComplete = FALSE, !.debugInfo = "Measuring",
               !.heightCm = 0, !.heightFt = 0, !.heightInches = 0, !.confidence = 0]

\* a mutant of CanStart: the guard of line 438 is missing
CanStartAlways == TRUE

\* the guard of line 438
CanStart == refs.hasCalibratedRef

startMeasurement ==
    IF ~CanStart
    THEN /\ error' = "Please calibrate first"
         /\ probe' = NoProbe
         /\ UNCHANGED <<measurementState, permissionGranted, refs, listeners,
                        imuOnMotion, calibs, now, staleCalibs, statRunMs, lastStart,
                        nEvents>>
    ELSE /\ listeners < MaxListeners
         /\ error' = NoError
         /\ refs' = StartRefs(refs)
         /\ measurementState' = StartState(measurementState)
         /\ listeners' = listeners + 1
         /\ imuOnMotion' = TRUE
         /\ statRunMs' = 0
         /\ probe' = NoProbe
         /\ lastStart' = [from |-> Phase, moved |-> refs.peakDisplacementRef > 0,
                          gravity |-> refs.gravityRef]
         /\ UNCHANGED <<permissionGranted, calibs, now, staleCalibs, nEvents>>

\* lines 563-566 and 581-584: removeEventListener(window._imu_onMotion)
Detached(n, handle) == IF handle THEN n - 1 ELSE n

\* a mutant of StopState: the result is cleared when the session is closed
StopStateCleared(ms) ==
    [ms EXCEPT !.isMeasuring = FALSE, !.isComplete = TRUE, !.debugInfo = "Final",
               !.heightCm = 0, !.heightFt = 0, !.heightInches = 0, !.confidence = 0]

\* lines 572-577
StopState(ms) ==
    [ms EXCEPT !.isMeasuring = FALSE, !.isComplete = TRUE, !.debugInfo = "Final"]

stopMeasurement ==
    /\ listeners' = Detached(listeners, imuOnMotion)
    /\ imuOnMotion' = FALSE
    /\ measurementState' = StopState(measurementState)
    /\ probe' = NoProbe
    /\ UNCHANGED <<error, permissionGranted, refs, calibs, now, staleCalibs,
                   statRunMs, lastStart, nEvents>>

resetMeasurement ==
    /\ listeners' = Detached(listeners, imuOnMotion)
    /\ imuOnMotion' = FALSE
    /\ refs' = InitialRefs
    /\ measurementState' = InitialState
    /\ error' = NoError
    /\ staleCalibs' = Len(calibs)
    /\ statRunMs' = 0
    /\ probe' = NoProbe
    /\ lastStart' = NoStart
    /\ UNCHANGED <<permissionGranted, calibs, now, nEvents>>

-----------------------------------------------------------------------------
(* A devicemotion event *)

Collect(samples, e) == IF e.hasAg THEN Append(samples, e.ag) ELSE samples

\* The platform dispatches e, e.gap ms after the previous event, to the
\* handler of every open calibration window and to every attached onMotion.
DeviceMotion(e) ==
    \E st \in {Dispatch([refs |-> refs, ms |-> measurementState, run |-> statRunMs,
                         probe |-> [NoProbe EXCEPT !.zuptRun = probe.zuptRun]],
                        e, now + e.gap, listeners)} :
        /\ now' = now + e.gap
        /\ nEvents' = nEvents + 1
        /\ calibs' = [i \in DOMAIN calibs |-> Collect(calibs[i], e)]
        /\ refs' = st.refs
        /\ measurementState' = st.ms
        /\ statRunMs' = st.run
        /\ probe' = st.probe
        /\ UNCHANGED <<error, permissionGranted, listeners, imuOnMotion, staleCalibs,
                       lastStart>>

Event(ag, hasRr, rr, interval, gap) ==
    [hasAg |-> TRUE, ag |-> ag, hasRr |-> hasRr, rr |-> rr, interval |-> interval,
     gap |-> gap]

Gap == 30   \* wall-clock time between two events, ms

Rest  == Event(Vec(0, 0, 9810), TRUE, NoVec, 20, Gap)        \* lying still
Band  == Event(Vec(0, 0, 10011), TRUE, NoVec, 0, Gap)        \* 0.201 m/s^2 off rest, no interval
Shock == Event(Vec(0, 0, -1490190), FALSE, NoVec, 50, Gap)   \* 1500 m/s^2 upwards
Down  == Event(Vec(0, 0, 39810), FALSE, NoVec, 0, Gap)        \* 30 m/s^2 downwards, no interval
NoAg  == [hasAg |-> FALSE, ag |-> NoVec, hasRr |-> FALSE, rr |-> NoVec,
          interval |-> 20, gap |-> Gap]

\* the events of Spec
Events == {Rest, Band, Shock, Down, NoAg}

Next ==
    \/ \E o \in PermissionOutcomes : ~permissionGranted /\ requestSensorPermission(o)
    \/ \E o \in PermissionOutcomes : calibrate(o)
    \/ calibrateTimeout
    \/ startMeasurement
    \/ stopMeasurement
    \/ resetMeasurement
    \/ \E e \in Events : nEvents < MaxEvents /\ DeviceMotion(e)

Spec == Init /\ [][Next]_vars

-----------------------------------------------------------------------------
(* StreamSpec: one measurement session fed a synthetic stream.  The hook  *)
(* is driven through the controls of the HeightMeasurement component       *)
(* (HeightMeasurement.tsx lines 29, 138 and 149): permission, calibrate    *)
(* until it succeeds, then start.  The window receives one calibration     *)
(* sample, and the session at most MaxVaried samples of any kind followed  *)
(* by samples of a device held still.                                      *)

Rest50 == Event(Vec(0, 0, 9810), TRUE, NoVec, 50, Gap)           \* lying still, 50 ms
Tilt   == Event(Vec(55, 0, 9810), TRUE, Vec(5, 0, 0), 50, Gap)   \* still, slightly tilted
Rise   == Event(Vec(0, 0, -190), TRUE, NoVec, 50, Gap)           \* 10 m/s^2 upwards
Spin   == Event(Vec(0, 0, 9810), TRUE, Vec(30, 40, 0), 200, Gap) \* rotating at 5 deg/s

StillEvents == {Rest, Rest50}

VariedEvents == {Rest, Rest50, Tilt, Rise, Down, Spin, Band, Shock}

CalibrationEvents == {Rest, Tilt}

NoControl ==
    /\ ~measurementState.isCalibrating
    /\ ~measurementState.isMeasuring
    /\ ~measurementState.isComplete

StreamEvents ==
    IF calibs # <<>> /\ listeners = 0
    THEN IF Len(Head(calibs)) = 0 THEN CalibrationEvents ELSE {}
    ELSE IF listeners = 0 THEN {}
    ELSE IF refs.totalSamplesRef < MaxVaried THEN VariedEvents
    ELSE StillEvents

StreamNext ==
    \/ \E o \in PermissionOutcomes : ~permissionGranted /\ requestSensorPermission(o)
    \/ \E o \in PermissionOutcomes :
           NoControl /\ permissionGranted /\ ~refs.hasCalibratedRef /\ calibrate(o)
    \/ calibrateTimeout
    \/ NoControl /\ startMeasurement
    \/ \E e \in StreamEvents : nEvents < MaxStreamEvents /\ DeviceMotion(e)

StreamSpec == Init /\ [][StreamNext]_vars

-----------------------------------------------------------------------------
(* FlatSpec: the device lies still throughout.  Every event of a behaviour *)
(* carries the same acceleration vector g, no rotation and an interval of  *)
(* 20 ms: the calibration window collects up to MaxFlatCalib of them, and  *)
(* the measurement session that follows is fed the rest.                   *)

FlatInterval == 20

Flat(g) == Event(g, TRUE, NoVec, FlatInterval, FlatInterval)

\* flat on a table, slightly tilted, upright
FlatVectors == {Vec(0, 0, 9810), Vec(55, 0, 9810), Vec(0, 9810, 0)}

FlatEvents ==
    IF calibs # <<>>
    THEN IF Head(calibs) = <<>> THEN {Flat(g) : g \in FlatVectors}
         ELSE IF Len(Head(calibs)) < MaxFlatCalib THEN {Flat(Head(calibs)[1])}
         ELSE {}
    ELSE IF listeners > 0 THEN {Flat(lastStart.gravity)}
    ELSE {}

FlatNext ==
    \/ \E o \in PermissionOutcomes : ~permissionGranted /\ requestSensorPermission(o)
    \/ \E o \in PermissionOutcomes :
           NoControl /\ permissionGranted /\ ~refs.hasCalibratedRef /\ calibrate(o)
    \/ calibrateTimeout
    \/ NoControl /\ startMeasurement
    \/ \E e \in FlatEvents : nEvents < MaxFlatEvents /\ DeviceMotion(e)

FlatSpec == Init /\ [][FlatNext]_vars

-----------------------------------------------------------------------------
(* SettleSpec: the device moves on the first sample of the session and is  *)
(* then held almost still: the samples that follow are at rest (50 ms) or  *)
(* carry 0.02 m/s^2 of upward acceleration (20 ms), both stationary.  One  *)
(* event without a reading may follow the first sample.                    *)

Drift == Event(Vec(0, 0, 9790), TRUE, NoVec, 20, Gap)   \* 0.02 m/s^2 upwards

SettleEvents ==
    IF calibs # <<>> /\ listeners = 0
    THEN IF Head(calibs) = <<>> THEN {Rest} ELSE {}
    ELSE IF listeners = 0 THEN {}
    ELSE IF refs.totalSamplesRef = 0 THEN {Rise, Down, Rest50}
    ELSE IF refs.totalSamplesRef = 1 /\ probe.processed THEN {Rest50, Drift, NoAg}
    ELSE {Rest50, Drift}

SettleNext ==
    \/ \E o \in PermissionOutcomes : ~permissionGranted /\ requestSensorPermission(o)
    \/ \E o \in PermissionOutcomes :
           NoControl /\ permissionGranted /\ ~refs.hasCalibratedRef /\ calibrate(o)
    \/ calibrateTimeout
    \/ NoControl /\ startMeasurement
    \/ \E e \in SettleEvents : nEvents < MaxSettleEvents /\ DeviceMotion(e)

SettleSpec == Init /\ [][SettleNext]_vars

-----------------------------------------------------------------------------
(* ImportedSpec: the hook that HeightMeasurement.tsx imports,              *)
(* src/src/hooks/useIMUHeight.ts.  Its requestSensorPermission, calibrate, *)
(* stopMeasurement and resetMeasurement are the text modelled above, and   *)
(* so are its vector helpers, toFeetInches and the snapshot it publishes;  *)
(* its startMeasurement differs in having no peakDisplacementRef (the      *)
(* field stays 0 here) and in the listener it attaches.                    *)

ImportedLpf == 2                \* lpf = 0.02, in hundredths
ImportedStatMaxAVert == 50      \* Math.abs(aVert) < 0.05
ImportedStatMaxRot == 10        \* rotMag < 1
ImportedStatMaxALin == 80       \* aLinMag < 0.08
ImportedDecayNum == 5           \* velocity *= 0.995, i.e. v - 5 v / 1000
ImportedZuptMs == 200           \* stationarySamples * dt >= 0.2
ImportedDtMax == 200            \* dt > 0.2 is dropped

\* line 163, ms: the wall-clock delta, else e.interval (milliseconds, read
\* as seconds), else 0.02 s
ImportedRawDt(r, e, tsNow) ==
    IF r.lastTimestampRef # 0 THEN tsNow - r.lastTimestampRef
    ELSE IF e.interval # 0 THEN e.interval * 1000
    ELSE DtDefault

\* lines 197-205
ImportedVelocity(v, aVert, dt, count) ==
    LET v1 == v + RoundDiv(aVert * dt, 100)
        v2 == v1 - RoundDiv(v1 * ImportedDecayNum, 1000)
    IN  IF count * dt >= ImportedZuptMs THEN 0 ELSE v2

\* lines 207-211
ImportedDisplacement(d, v, dt) ==
    LET d1 == d + v * dt
    IN  IF d1 < 0 THEN 0 ELSE IF d1 > MaxDisp THEN MaxDisp ELSE d1

\* lines 159-230
importedOnMotion(st, e, tsNow) ==
    LET r      == st.refs
        dt     == ImportedRawDt(r, e, tsNow)
        gPrev  == r.gravityRef
        gMeas  == e.ag
        gNew   == vecAdd(vecScale(gPrev, 100 - ImportedLpf, 100),
                         vecScale(gMeas, ImportedLpf, 100))
        aLin   == vecSub(gMeas, gNew)
        aVert  == AVert(aLin, gNew)
        rotMag == RotMag(e)
        stat   == /\ Abs(aVert) < ImportedStatMaxAVert
                  /\ rotMag < ImportedStatMaxRot
                  /\ vecLen(aLin) < ImportedStatMaxALin
        count  == StationaryCount(r.stationarySamplesRef, stat)
        vel    == ImportedVelocity(r.velocityRef, aVert, dt, count)
        disp   == ImportedDisplacement(r.displacementRef, vel, dt)
    IN  IF ~e.hasAg \/ dt <= 0 \/ dt > ImportedDtMax
        THEN [st EXCEPT !.refs.lastTimestampRef = tsNow, !.probe.processed = FALSE]
        ELSE [refs  |-> [r EXCEPT !.lastTimestampRef = tsNow,
                                  !.gravityRef = gNew,
                                  !.stationarySamplesRef = count,
                                  !.velocityRef = vel,
                                  !.displacementRef = disp,
                                  !.totalSamplesRef = r.totalSamplesRef + 1],
              ms    |-> Publish(st.ms, disp, stat),
              run   |-> IF stat THEN st.run + dt ELSE 0,
              probe |-> [processed |-> TRUE, dt |-> dt, stationary |-> stat,
                         allowGUpdate |-> TRUE,
                         gPrev |-> gPrev, gMeas |-> gMeas, rotMag |-> rotMag,
                         aVert |-> aVert,
                         zuptRun |-> stat /\ (count * dt >= ImportedZuptMs
                                                 \/ st.probe.zuptRun)]]

RECURSIVE ImportedDispatch(_, _, _, _)
ImportedDispatch(st, e, tsNow, n) ==
    IF n = 0 THEN st
    ELSE ImportedDispatch(importedOnMotion(st, e, tsNow), e, tsNow, n - 1)

ImportedDeviceMotion(e) ==
    \E st \in {ImportedDispatch([refs |-> refs, ms |-> measurementState,
                                 run |-> statRunMs,
                                 probe |-> [NoProbe EXCEPT !.zuptRun = probe.zuptRun]],
                                e, now + e.gap, listeners)} :
        /\ now' = now + e.gap
        /\ nEvents' = nEvents + 1
        /\ calibs' = [i \in DOMAIN calibs |-> Collect(calibs[i], e)]
        /\ refs' = st.refs
        /\ measurementState' = st.ms
        /\ statRunMs' = st.run
        /\ probe' = st.probe
        /\ UNCHANGED <<error, permissionGranted, listeners, imuOnMotion, staleCalibs,
                       lastStart>>

LateGap == 250

Late == Event(Vec(0, 0, 9810), TRUE, NoVec, 0, LateGap)   \* at rest, 250 ms after the last

ImportedEvents ==
    IF calibs # <<>> /\ listeners = 0
    THEN IF Head(calibs) = <<>> THEN {Rest} ELSE {}
    ELSE IF listeners = 0 THEN {}
    ELSE {Rest, Rise, Down, Drift, Late}

ImportedNext ==
    \/ \E o \in PermissionOutcomes : ~permissionGranted /\ requestSensorPermission(o)
    \/ \E o \in PermissionOutcomes :
           NoControl /\ permissionGranted /\ ~refs.hasCalibratedRef /\ calibrate(o)
    \/ calibrateTimeout
    \/ NoControl /\ startMeasurement
    \/ measurementState.isMeasuring /\ stopMeasurement
    \/ \E e \in ImportedEvents : nEvents < MaxImportedEvents /\ ImportedDeviceMotion(e)

ImportedSpec == Init /\ [][ImportedNext]_vars

-----------------------------------------------------------------------------
(* LiftSpec: a session whose first sample is one upward push of 50 ms, of   *)
(* any strength on a grid of LiftStep, followed by samples at rest.  The    *)
(* push leaves the device at a height between 0 and 300 cm, so that the     *)
(* snapshot is published for heights over the whole reportable range.       *)

LiftStep == 400     \* 0.4 m/s^2 between two pushes: 0.1 cm of height

\* a push of a (0.001 m/s^2) upwards on a device lying flat
Lift(a) == Event(Vec(0, 0, GravityZ - a), FALSE, NoVec, 50, Gap)

LiftEvents ==
    IF calibs # <<>> /\ listeners = 0
    THEN IF Head(calibs) = <<>> THEN {Rest} ELSE {}
    ELSE IF listeners = 0 THEN {}
    ELSE IF refs.totalSamplesRef = 0 THEN {Lift(LiftStep * k) : k \in 0..MaxLift}
    ELSE {Rest50}

LiftNext ==
    \/ \E o \in PermissionOutcomes : ~permissionGranted /\ requestSensorPermission(o)
    \/ \E o \in PermissionOutcomes :
           NoControl /\ permissionGranted /\ ~refs.hasCalibratedRef /\ calibrate(o)
    \/ calibrateTimeout
    \/ NoControl /\ startMeasurement
    \/ \E e \in LiftEvents : nEvents < MaxLiftEvents /\ DeviceMotion(e)

LiftSpec == Init /\ [][LiftNext]_vars

-----------------------------------------------------------------------------
(* TimingSpec: a session fed events whose reported interval and distance   *)
(* in time from the previous event vary independently: the interval is     *)
(* absent (0), below, within or above the accepted range, and so is the    *)
(* wall-clock distance, which is 0 for two events of the same millisecond. *)
(* Events without a reading are among them.                                *)

TimingIntervals == {0, 2, 20, 200}

TimingGaps == {0, 3, 30, 300}

\* 10 m/s^2 upwards, with the given interval, gap ms after the previous event
Timed(interval, gap) == Event(Vec(0, 0, -190), TRUE, NoVec, interval, gap)

TimingEvents ==
    IF calibs # <<>> /\ listeners = 0
    THEN IF Head(calibs) = <<>> THEN {Rest} ELSE {}
    ELSE IF listeners = 0 THEN {}
    ELSE {Timed(i, g) : i \in TimingIntervals, g \in TimingGaps} \cup {NoAg}

TimingNext ==
    \/ \E o \in PermissionOutcomes : ~permissionGranted /\ requestSensorPermission(o)
    \/ \E o \in PermissionOutcomes :
           NoControl /\ permissionGranted /\ ~refs.hasCalibratedRef /\ calibrate(o)
    \/ calibrateTimeout
    \/ NoControl /\ startMeasurement
    \/ \E e \in TimingEvents : nEvents < MaxTimingEvents /\ DeviceMotion(e)

TimingSpec == Init /\ [][TimingNext]_vars

-----------------------------------------------------------------------------
(* ConservativeSpec: the conservative upward-segment variant of the hook   *)
(* (src/unnamed/part_000 lines 1-302).  Its requestSensorPermission,       *)
(* calibrate, stopMeasurement, vector helpers and toFeetInches are the     *)
(* text modelled above; its refs, startMeasurement and listener differ.    *)
(* Here `refs` holds the cells of lines 49-55: totalHeightRef in 0.00001   *)
(* cm, stationaryTimeRef and movingUpTimeRef in ms.  The session receives  *)
(* MaxConservativeVaried events of any kind; then the device climbs, and   *)
(* once it rests it stays at rest until the velocity has been reset.       *)

ConservativeDtMax == 50                 \* Math.min(0.05, ...)
ConservativeStatMaxAVert == 20          \* Math.abs(aVert) < 0.02
ConservativeStatMaxALin == 50           \* vecLen(aLin) < 0.05
ConservativeUpMinAVert == 50            \* aVert > 0.05
ConservativeZuptMs == 300               \* stationaryTime > 0.3
ConservativeMaxVelocity == 8000         \* Math.min(80, velocity)
ConservativeDampNum == 9                \* velocity *= 0.9, in tenths
ConservativeMinVelocity == 100          \* velocity > 1
ConservativeMinUpMs == 100              \* movingUpTime > 0.1
ConservativeMaxHeight == 25000000       \* Math.min(250, totalHeight)
ConservativeConfMinCm == 100            \* cm > 10, in tenths
ConservativeConfHigh == 950             \* 95
ConservativeConfLow == 750              \* 75

ConservativeInitialRefs ==
    [gravityRef |-> DefaultGravity, lastTimestampRef |-> 0, totalHeightRef |-> 0,
     velocityRef |-> 0, stationaryTimeRef |-> 0, movingUpTimeRef |-> 0,
     hasCalibratedRef |-> FALSE]

ConservativeInit ==
    /\ measurementState = InitialState
    /\ error = NoError
    /\ permissionGranted = FALSE
    /\ refs = ConservativeInitialRefs
    /\ listeners = 0
    /\ imuOnMotion = FALSE
    /\ calibs = <<>>
    /\ now = StartClock
    /\ staleCalibs = 0
    /\ statRunMs = 0
    /\ probe = NoProbe
    /\ lastStart = NoStart
    /\ nEvents = 0

\* lines 141-145
ConservativeStartRefs(r) ==
    [r EXCEPT !.totalHeightRef = 0, !.velocityRef = 0, !.lastTimestampRef = 0,
              !.stationaryTimeRef = 0, !.movingUpTimeRef = 0]

\* lines 133-235
conservativeStartMeasurement ==
    IF ~CanStart
    THEN /\ error' = "Please calibrate first"
         /\ probe' = NoProbe
         /\ UNCHANGED <<measurementState, permissionGranted, refs, listeners,
                        imuOnMotion, calibs, now, staleCalibs, statRunMs, lastStart,
                        nEvents>>
    ELSE /\ listeners < MaxListeners
         /\ error' = NoError
         /\ refs' = ConservativeStartRefs(refs)
         /\ measurementState' = StartState(measurementState)
         /\ listeners' = listeners + 1
         /\ imuOnMotion' = TRUE
         /\ statRunMs' = 0
         /\ probe' = NoProbe
         /\ lastStart' = [from |-> Phase, moved |-> refs.totalHeightRef > 0,
                          gravity |-> refs.gravityRef]
         /\ UNCHANGED <<permissionGranted, calibs, now, staleCalibs, nEvents>>

\* line 161, ms
ConservativeDt(r, tsNow) ==
    IF r.lastTimestampRef # 0 THEN Min(ConservativeDtMax, tsNow - r.lastTimestampRef)
    ELSE DtDefault

\* line 178
ConservativeStationary(aVert, aLinMag) ==
    Abs(aVert) < ConservativeStatMaxAVert /\ aLinMag < ConservativeStatMaxALin

\* line 179
ConservativeMovingUp(aVert) == aVert > ConservativeUpMinAVert

\* a mutant of ConservativeVelocity: the limit of 80 cm/s is missing
ConservativeVelocityUnlimited(v, aVert, dt, isStationary, isMovingUp, stationaryTime) ==
    IF isStationary
    THEN IF stationaryTime > ConservativeZuptMs THEN 0 ELSE v
    ELSE IF isMovingUp
    THEN Max(0, v + RoundDiv(aVert * dt, 100))
    ELSE RoundDiv(v * ConservativeDampNum, 10)

\* velocityRef after lines 181-200; stationaryTime is the value after line 182
ConservativeVelocity(v, aVert, dt, isStationary, isMovingUp, stationaryTime) ==
    IF isStationary
    THEN IF stationaryTime > ConservativeZuptMs THEN 0 ELSE v
    ELSE IF isMovingUp
    THEN Max(0, Min(ConservativeMaxVelocity, v + RoundDiv(aVert * dt, 100)))
    ELSE RoundDiv(v * ConservativeDampNum, 10)

\* lines 203-208
ConservativeHeight(h, v, dt, movingUpTime) ==
    LET h1 == IF v > ConservativeMinVelocity /\ movingUpTime > ConservativeMinUpMs
              THEN h + v * dt ELSE h
    IN  Max(0, Min(ConservativeMaxHeight, h1))

\* lines 210-223
ConservativePublish(ms, height, isStationary) ==
    LET cm == RoundDiv(height, 10000)
        fi == toFeetInches(cm)
    IN  [ms EXCEPT !.heightCm = fi.cm, !.heightFt = fi.feet, !.heightInches = fi.inches,
                   !.confidence = IF isStationary /\ cm > ConservativeConfMinCm
                                  THEN ConservativeConfHigh ELSE ConservativeConfLow,
                   !.debugInfo = "Sample"]

\* lines 158-224
conservativeOnMotion(st, e, tsNow) ==
    LET r       == st.refs
        dt      == ConservativeDt(r, tsNow)
        gMeas   == e.ag
        gravity == r.gravityRef
        aLin    == vecSub(gMeas, gravity)
        aVert   == AVert(aLin, gravity)
        isStat  == ConservativeStationary(aVert, vecLen(aLin))
        isUp    == ConservativeMovingUp(aVert)
        statT   == IF isStat THEN r.stationaryTimeRef + dt ELSE 0
        upT     == IF ~isStat /\ isUp THEN r.movingUpTimeRef + dt ELSE 0
        vel     == ConservativeVelocity(r.velocityRef, aVert, dt, isStat, isUp, statT)
        height  == ConservativeHeight(r.totalHeightRef, vel, dt, upT)
    IN  IF ~e.hasAg \/ dt <= 0
        THEN [st EXCEPT !.refs.lastTimestampRef = tsNow, !.probe.processed = FALSE]
        ELSE [refs  |-> [r EXCEPT !.lastTimestampRef = tsNow,
                                  !.stationaryTimeRef = statT,
                                  !.movingUpTimeRef = upT,
                                  !.velocityRef = vel,
                                  !.totalHeightRef = height],
              ms    |-> ConservativePublish(st.ms, height, isStat),
              run   |-> statT,
              probe |-> [NoProbe EXCEPT !.processed = TRUE, !.dt = dt,
                                        !.stationary = isStat, !.gPrev = gravity,
                                        !.gMeas = gMeas, !.aVert = aVert]]

RECURSIVE ConservativeDispatch(_, _, _, _)
ConservativeDispatch(st, e, tsNow, n) ==
    IF n = 0 THEN st
    ELSE ConservativeDispatch(conservativeOnMotion(st, e, tsNow), e, tsNow, n - 1)

ConservativeDeviceMotion(e) ==
    \E st \in {ConservativeDispatch([refs |-> refs, ms |-> measurementState,
                                     run |-> statRunMs, probe |-> NoProbe],
                                    e, now + e.gap, listeners)} :
        /\ now' = now + e.gap
        /\ nEvents' = nEvents + 1
        /\ calibs' = [i \in DOMAIN calibs |-> Collect(calibs[i], e)]
        /\ refs' = st.refs
        /\ measurementState' = st.ms
        /\ statRunMs' = st.run
        /\ probe' = st.probe
        /\ UNCHANGED <<error, permissionGranted, listeners, imuOnMotion, staleCalibs,
                       lastStart>>

SlowGap == 60   \* wall-clock time between two events of ConservativeSpec, ms

Climb == Event(Vec(0, 0, -190), FALSE, NoVec, 0, SlowGap)    \* 10 m/s^2 upwards
Hold  == Event(Vec(0, 0, 9810), FALSE, NoVec, 0, SlowGap)    \* at rest
Sink  == Event(Vec(0, 0, 39810), FALSE, NoVec, 0, SlowGap)   \* 30 m/s^2 downwards
Creep == Event(Vec(0, 0, 9750), FALSE, NoVec, 0, SlowGap)    \* 0.06 m/s^2 upwards
Brisk == Event(Vec(0, 0, -190), FALSE, NoVec, 0, Gap)        \* 10 m/s^2 upwards, 30 ms
Same  == Event(Vec(0, 0, -190), FALSE, NoVec, 0, 0)          \* in the same millisecond

ConservativeEvents ==
    IF calibs # <<>> /\ listeners = 0
    THEN IF Head(calibs) = <<>> THEN {Rest} ELSE {}
    ELSE IF listeners = 0 THEN {}
    ELSE IF nEvents <= MaxConservativeVaried
    THEN {Climb, Hold, Sink, Creep, Brisk, Same, NoAg}
    ELSE IF refs.stationaryTimeRef > ConservativeZuptMs THEN {}
    ELSE IF refs.stationaryTimeRef > 0 THEN {Hold}
    ELSE {Climb, Hold}

ConservativeNext ==
    \/ \E o \in PermissionOutcomes : ~permissionGranted /\ requestSensorPermission(o)
    \/ \E o \in PermissionOutcomes :
           NoControl /\ permissionGranted /\ ~refs.hasCalibratedRef /\ calibrate(o)
    \/ calibrateTimeout
    \/ NoControl /\ conservativeStartMeasurement
    \/ \E e \in ConservativeEvents :
           nEvents < MaxConservativeEvents /\ ConservativeDeviceMotion(e)

ConservativeSpec == ConservativeInit /\ [][ConservativeNext]_vars

-----------------------------------------------------------------------------
(* Claims *)

NotCalibratedError == "Please calibrate first"

\* C1: after every processed motion sample, for every sequence of samples,
\* 0 <= displacement <= 300 cm, 0 <= peakDisplacement <= 300 cm and
\* peakDisplacement >= displacement.
C1_DisplacementBounds ==
    /\ 0 <= refs.displacementRef /\ refs.displacementRef <= MaxDisp
    /\ 0 <= refs.peakDisplacementRef /\ refs.peakDisplacementRef <= MaxDisp
    /\ refs.peakDisplacementRef >= refs.displacementRef

\* a sample has just been processed and the clamp at 300 cm has acted
C1_Witness ==
    /\ probe.processed
    /\ refs.velocityRef * probe.dt > MaxDisp
    /\ refs.displacementRef = MaxDisp
    /\ refs.peakDisplacementRef = MaxDisp

\* C2: when stopMeasurement or resetMeasurement returns, every listener that
\* any startMeasurement attached has been detached, so that no later sample
\* changes the integrator state or the published snapshot.
C2_StopDetachesAll ==
    [][(stopMeasurement \/ resetMeasurement) => listeners' = 0]_vars

\* C3: after a run of consecutive stationary samples whose time deltas sum to
\* at least 0.5 s, velocity is exactly 0.
C3_ZuptAfterHalfSecond ==
    (probe.processed /\ statRunMs >= ZuptMs) => refs.velocityRef = 0

\* C4: startMeasurement invoked in a phase other than Calibrated or Complete
\* fails with the not-calibrated error, attaches no listener and leaves the
\* integrator state unchanged.
C4_StartOnlyWhenCalibratedOrComplete ==
    [][(startMeasurement /\ Phase \notin {"Calibrated", "Complete"})
          => /\ error' = NotCalibratedError
             /\ UNCHANGED <<refs, listeners, imuOnMotion, measurementState>>]_vars

\* C5: after resetMeasurement the session stays uncalibrated until a calibrate
\* call that was started after the reset completes successfully: a window
\* that was opened before the reset does not calibrate the session.
C5_ResetDiscardsOpenCalibration ==
    [][(calibrateTimeout /\ staleCalibs > 0) => ~refs'.hasCalibratedRef]_vars

\* C6, as claimed: a processed sample whose linear acceleration (measured
\* minus the gravity estimate held before the sample) exceeds 0.2 m/s^2
\* leaves the gravity estimate equal to its value before the sample.
C6_FreezeOnPriorLinearAcceleration ==
    (probe.processed /\ vecLen(vecSub(probe.gMeas, probe.gPrev)) > GUpdateMaxALin)
        => refs.gravityRef = probe.gPrev

\* C6, amended: a processed sample whose candidate linear acceleration
\* (measured minus the low-pass candidate 0.99 * prior + 0.01 * measured) is
\* not below 0.2 m/s^2 leaves the gravity estimate equal to its value before
\* the sample.
C6_FreezeOnCandidateLinearAcceleration ==
    (/\ probe.processed
     /\ vecLen(vecSub(probe.gMeas, GCandidate(probe.gPrev, probe.gMeas))) >= GUpdateMaxALin)
        => refs.gravityRef = probe.gPrev

\* a sample far from the estimate was processed, its candidate differed from
\* the estimate, and the estimate was kept
C6_Witness ==
    /\ probe.processed
    /\ vecLen(vecSub(probe.gMeas, GCandidate(probe.gPrev, probe.gMeas))) >= GUpdateMaxALin
    /\ GCandidate(probe.gPrev, probe.gMeas) # probe.gPrev
    /\ refs.gravityRef = probe.gPrev

\* C7: over a devicemotion event that a measurement session processes,
\* peakDisplacement does not decrease.
C7_MonotonicPeak ==
    [][nEvents' # nEvents => refs'.peakDisplacementRef >= refs.peakDisplacementRef]_vars

\* two or more samples of a session were processed, a peak was reached and
\* the last sample left velocity downwards
C7_Witness ==
    /\ probe.processed
    /\ refs.totalSamplesRef >= 2
    /\ refs.peakDisplacementRef > 0
    /\ refs.peakDisplacementRef < MaxDisp
    /\ refs.velocityRef < 0

\* C8: startMeasurement invoked in phase Idle sets the not-calibrated error
\* and changes nothing else.
C8_StartInIdleOnlySetsError ==
    [][(startMeasurement /\ Phase = "Idle")
          => /\ error' = NotCalibratedError
             /\ UNCHANGED <<measurementState, permissionGranted, refs, listeners,
                            imuOnMotion, calibs, now, statRunMs>>]_vars

\* startMeasurement has failed in phase Idle
C8_Witness ==
    /\ error = NotCalibratedError
    /\ Phase = "Idle"
    /\ listeners = 0

\* C9: startMeasurement invoked in phase Complete of a calibrated session
\* succeeds: the phase becomes Measuring, velocity, displacement, peak and
\* the stationary counter are 0, and the published height and confidence
\* are 0.
C9_RemeasureResets ==
    [][(startMeasurement /\ refs.hasCalibratedRef /\ Phase = "Complete")
          => /\ measurementState'.isMeasuring /\ ~measurementState'.isComplete
             /\ error' = NoError
             /\ refs'.velocityRef = 0 /\ refs'.displacementRef = 0
             /\ refs'.peakDisplacementRef = 0 /\ refs'.stationarySamplesRef = 0
             /\ measurementState'.heightCm = 0 /\ measurementState'.heightFt = 0
             /\ measurementState'.heightInches = 0
             /\ measurementState'.confidence = 0]_vars

\* a session that had measured a height and was stopped has been started again
C9_Witness ==
    /\ lastStart.from = "Complete" /\ lastStart.moved
    /\ Phase = "Measuring"
    /\ measurementState.debugInfo = "Measuring"
    /\ refs.peakDisplacementRef = 0
    /\ measurementState.heightCm = 0

\* C10: stopMeasurement invoked while isMeasuring is false leaves the phase
\* flags unchanged.
C10_StopOnlyFromMeasuring ==
    [][(stopMeasurement /\ ~measurementState.isMeasuring)
          => /\ measurementState'.isComplete = measurementState.isComplete
             /\ measurementState'.isCalibrating = measurementState.isCalibrating
             /\ measurementState'.isMeasuring = measurementState.isMeasuring]_vars

NoDataError == "No sensor data during calibration"

\* C11: resetMeasurement leaves a state that a second resetMeasurement does
\* not change (phase Idle, velocity, displacement, peak and the stationary
\* counter 0, gravity {0,0,9.81}, not calibrated, the snapshot all zero, the
\* error cleared) and in which no listener is attached.
C11_ResetIdempotent ==
    [][resetMeasurement
          => /\ refs' = InitialRefs
             /\ measurementState' = InitialState
             /\ Phase' = "Idle"
             /\ error' = NoError
             /\ ~imuOnMotion'
             /\ listeners' = 0]_vars

\* C12: a calibration window that collected at least one sample ends with
\* the gravity estimate equal to the component-wise mean of the collected
\* vectors (to the nearest unit), the session calibrated and the phase
\* Calibrated, all three flags false.
C12_CalibrationMean ==
    [][(calibrateTimeout /\ calibs # <<>> /\ Len(Head(calibs)) > 0)
          => LET n   == Len(Head(calibs))
                 sum == vecSum(Head(calibs))
                 g   == refs'.gravityRef
             IN  /\ Abs(n * g.x - sum.x) * 2 <= n
                 /\ Abs(n * g.y - sum.y) * 2 <= n
                 /\ Abs(n * g.z - sum.z) * 2 <= n
                 /\ refs'.hasCalibratedRef
                 /\ Phase' = "Calibrated"
                 /\ ~measurementState'.isCalibrating
                 /\ ~measurementState'.isMeasuring
                 /\ ~measurementState'.isComplete]_vars

\* a calibration has ended on the mean of two different samples
C12_Witness ==
    /\ measurementState.debugInfo = "Calibrated"
    /\ Phase = "Calibrated"
    /\ refs.gravityRef \notin {e.ag : e \in Events}

\* C13: a calibration window that collected no sample ends with the
\* calibration error, the gravity estimate unchanged and the session in phase
\* Idle and not calibrated, whether or not an earlier calibration succeeded.
C13_NoDataReturnsToIdle ==
    [][(calibrateTimeout /\ calibs # <<>> /\ Head(calibs) = <<>>)
          => /\ error' = NoDataError
             /\ refs'.gravityRef = refs.gravityRef
             /\ Phase' = "Idle"
             /\ ~refs'.hasCalibratedRef]_vars

\* C14: a measurement sample whose time delta is not positive or lies
\* outside the accepted range changes neither velocity, displacement, peak,
\* the stationary counter, the gravity estimate nor the published snapshot.
C14_OutOfRangeDtDropped ==
    [][\A e \in VariedEvents :
          (/\ listeners > 0
           /\ DeviceMotion(e)
           /\ \/ RawDt(refs, e, now + e.gap) <= 0
              \/ RawDt(refs, e, now + e.gap) < DtMin
              \/ RawDt(refs, e, now + e.gap) > DtMax)
          => /\ refs'.velocityRef = refs.velocityRef
             /\ refs'.displacementRef = refs.displacementRef
             /\ refs'.peakDisplacementRef = refs.peakDisplacementRef
             /\ refs'.stationarySamplesRef = refs.stationarySamplesRef
             /\ refs'.gravityRef = refs.gravityRef
             /\ measurementState' = measurementState]_vars

\* C15: after every processed sample the published heightCm is the peak
\* displacement rounded to 0.1 cm, lies in [0, 300] and is not below the
\* heightCm published before the sample.
C15_HeightIsRoundedPeak ==
    [][(nEvents' # nEvents /\ probe'.processed)
          => /\ Abs(measurementState'.heightCm * 10000 - refs'.peakDisplacementRef) <= 5000
             /\ 0 <= measurementState'.heightCm
             /\ measurementState'.heightCm <= 3000
             /\ measurementState'.heightCm >= measurementState.heightCm]_vars

\* the second or a later sample of a session published a height that was
\* rounded upwards
C15_Witness ==
    /\ probe.processed
    /\ refs.totalSamplesRef >= 2
    /\ measurementState.heightCm > 0
    /\ measurementState.heightCm < 3000
    /\ refs.peakDisplacementRef % 10000 >= 5000
    /\ measurementState.heightCm * 10000 > refs.peakDisplacementRef

C18_ZeroSampleSession ==
    [][(stopMeasurement /\ Phase = "Measuring" /\ refs.totalSamplesRef = 0)
          => /\ Phase' = "Complete"
             /\ measurementState'.heightCm = 0
             /\ measurementState'.heightFt = 0
             /\ measurementState'.heightInches = 0
             /\ measurementState'.confidence = 0]_vars

\* a session that followed one with a measured height was stopped before
\* any sample
C18_Witness ==
    /\ Phase = "Complete"
    /\ measurementState.debugInfo = "Final"
    /\ lastStart.moved
    /\ refs.totalSamplesRef = 0
    /\ measurementState.heightCm = 0
    /\ measurementState.confidence = 0

\* C19: stopMeasurement leaves heightCm, heightFt, heightInches and
\* confidence as the last sample published them, and velocity,
\* displacement, peak and gravity unchanged.
C19_StopKeepsResult ==
    [][stopMeasurement
          => /\ measurementState'.heightCm = measurementState.heightCm
             /\ measurementState'.heightFt = measurementState.heightFt
             /\ measurementState'.heightInches = measurementState.heightInches
             /\ measurementState'.confidence = measurementState.confidence
             /\ probe.processed
                    => Abs(measurementState'.heightCm * 10000
                             - refs.peakDisplacementRef) <= 5000
             /\ refs'.velocityRef = refs.velocityRef
             /\ refs'.displacementRef = refs.displacementRef
             /\ refs'.peakDisplacementRef = refs.peakDisplacementRef
             /\ refs'.gravityRef = refs.gravityRef]_vars

\* a session was stopped in mid-motion with a height measured
C19_Witness ==
    /\ measurementState.debugInfo = "Final"
    /\ measurementState.isComplete
    /\ measurementState.heightCm > 0
    /\ measurementState.confidence >= 600
    /\ refs.velocityRef # 0
    /\ Abs(measurementState.heightCm * 10000 - refs.peakDisplacementRef) <= 5000

\* C20: after a processed sample the gravity estimate is the candidate
\* 0.99 * prior + 0.01 * measured (to the nearest unit) if |measured -
\* candidate| < 0.2 m/s^2 and the rotation-rate magnitude is < 3 deg/s, and
\* is the prior estimate in every other case.
C20_GravityUpdateIff ==
    probe.processed
        => LET p == probe.gPrev
               m == probe.gMeas
               g == refs.gravityRef
           IN  IF /\ vecLen(vecSub(m, GCandidate(p, m))) < GUpdateMaxALin
                  /\ probe.rotMag < GUpdateMaxRot
               THEN /\ Abs(100 * g.x - (99 * p.x + m.x)) <= 100
                    /\ Abs(100 * g.y - (99 * p.y + m.y)) <= 100
                    /\ Abs(100 * g.z - (99 * p.z + m.z)) <= 100
               ELSE g = p

\* a sample close to the estimate was refused because the device rotated
C20_Witness ==
    /\ probe.processed
    /\ probe.rotMag >= GUpdateMaxRot
    /\ vecLen(vecSub(probe.gMeas, GCandidate(probe.gPrev, probe.gMeas))) < GUpdateMaxALin
    /\ GCandidate(probe.gPrev, probe.gMeas) # probe.gPrev
    /\ refs.gravityRef = probe.gPrev

\* C21: the zero-velocity update fires on a sample only if the time deltas
\* of the current run of consecutive stationary samples, ending at that
\* sample, sum to at least 0.5 s; and a sample classified moving resets the
\* stationary accumulation to 0.
C21_ZuptOnlyOnSustainedStillness ==
    /\ (probe.processed /\ Zupt(refs.stationarySamplesRef, probe.dt))
           => (probe.stationary /\ statRunMs >= ZuptMs)
    /\ (probe.processed /\ ~probe.stationary)
           => (refs.stationarySamplesRef = 0 /\ statRunMs = 0)

\* C22: once the zero-velocity update has fired in a run of stationary
\* samples, every further stationary sample of the run leaves velocity 0,
\* displacement and peak unchanged and equal, and publishes the moving-sample
\* confidence of that peak plus 3.
C22_SettledRunStaysSettled ==
    [][(nEvents' # nEvents /\ probe.zuptRun /\ probe'.processed /\ probe'.stationary)
          => /\ refs'.velocityRef = 0
             /\ refs'.displacementRef = refs.displacementRef
             /\ refs'.peakDisplacementRef = refs.peakDisplacementRef
             /\ refs'.displacementRef = refs'.peakDisplacementRef
             /\ measurementState'.confidence
                    = RoundDiv(ConfBase(measurementState'.heightCm), 40) + 30]_vars

\* C23: a processed sample that leaves velocity <= 0 leaves displacement
\* unchanged, one that leaves velocity v > 0 raises displacement by v * dt
\* (up to the clamp at 300 cm); displacement never decreases over a sample.
C23_OnlyUpwardVelocityIntegrated ==
    [][(nEvents' # nEvents /\ probe'.processed)
          => /\ refs'.displacementRef =
                    IF refs'.velocityRef <= 0 THEN refs.displacementRef
                    ELSE Min(MaxDisp,
                             refs.displacementRef + refs'.velocityRef * probe'.dt)
             /\ refs'.displacementRef >= refs.displacementRef]_vars

\* a sample with downward acceleration left velocity negative and the
\* displacement reached before it in place
C23_Witness ==
    /\ probe.processed
    /\ probe.aVert < 0
    /\ refs.velocityRef < 0
    /\ refs.displacementRef > 0

\* C24: on a processed sample (on which the zero-velocity update does not
\* fire) velocity is increased by aVert * 100 * dt and then multiplied by
\* 0.9995 if and only if the sample is classified moving.
C24_DecayIffMoving ==
    [][(/\ nEvents' # nEvents
        /\ probe'.processed
        /\ ~Zupt(refs'.stationarySamplesRef, probe'.dt))
          => LET w == refs.velocityRef + RoundDiv(probe'.aVert * probe'.dt, 100)
             IN  refs'.velocityRef =
                     IF probe'.stationary THEN w ELSE w - RoundDiv(w, DecayDen)]_vars

\* a stationary sample with a vertical acceleration was integrated into a
\* velocity large enough for the decay to show
C24_Witness ==
    /\ probe.processed
    /\ probe.stationary
    /\ probe.aVert # 0
    /\ Abs(refs.velocityRef) >= DecayDen
    /\ ~Zupt(refs.stationarySamplesRef, probe.dt)

\* C25: a processed sample is classified stationary if and only if
\* |aVert| < 0.03, the rotation magnitude is < 0.7 deg/s and |aLin| < 0.06,
\* with aLin the measured acceleration minus the gravity estimate after the
\* sample and aVert its projection on the normalized negated estimate.
C25_StationaryIff ==
    probe.processed
        => LET g    == refs.gravityRef
               aLin == vecSub(probe.gMeas, g)
               aV   == vecDot(aLin, vecNorm(Vec(-g.x, -g.y, -g.z)))
           IN  probe.stationary
                   <=> /\ Abs(aV) < StatMaxAVert
                       /\ probe.rotMag < StatMaxRot
                       /\ vecLen(aLin) < StatMaxALin

\* a sample without linear acceleration was classified moving for its
\* rotation alone
C25_Witness ==
    /\ probe.processed
    /\ ~probe.stationary
    /\ probe.aVert = 0
    /\ vecLen(vecSub(probe.gMeas, refs.gravityRef)) < StatMaxALin
    /\ probe.rotMag >= StatMaxRot

\* C26: a motion event without an acceleration-including-gravity reading
\* changes none of velocity, displacement, peak, the stationary counter and
\* the gravity estimate, publishes no snapshot and raises no error.
C26_MissingReadingDropped ==
    [][(listeners > 0 /\ DeviceMotion(NoAg))
          => /\ refs'.velocityRef = refs.velocityRef
             /\ refs'.displacementRef = refs.displacementRef
             /\ refs'.peakDisplacementRef = refs.peakDisplacementRef
             /\ refs'.stationarySamplesRef = refs.stationarySamplesRef
             /\ refs'.gravityRef = refs.gravityRef
             /\ refs'.totalSamplesRef = refs.totalSamplesRef
             /\ measurementState' = measurementState
             /\ error' = error]_vars

\* an event without a reading has reached the listener of a session in
\* motion
C26_Witness ==
    /\ listeners > 0
    /\ ~probe.processed
    /\ refs.totalSamplesRef = 1
    /\ refs.lastTimestampRef = now
    /\ refs.velocityRef # 0
    /\ measurementState.debugInfo = "Sample"

\* C28: startMeasurement and stopMeasurement leave the gravity estimate
\* unchanged, and the estimate of a calibrated session changes only on a
\* reset, on the completion of a calibration, or on a sample of a running
\* measurement.
C28_GravityOnlyChangedByRunningMeasurement ==
    [][/\ (startMeasurement \/ stopMeasurement) => refs'.gravityRef = refs.gravityRef
       /\ (refs.hasCalibratedRef /\ refs'.gravityRef # refs.gravityRef)
              => \/ resetMeasurement
                 \/ calibrateTimeout
                 \/ (nEvents' # nEvents /\ measurementState.isMeasuring)]_vars

\* C29: at most one of isCalibrating, isMeasuring and isComplete is true.
C29_OnePhaseAtATime ==
    /\ ~(measurementState.isCalibrating /\ measurementState.isMeasuring)
    /\ ~(measurementState.isCalibrating /\ measurementState.isComplete)
    /\ ~(measurementState.isMeasuring /\ measurementState.isComplete)

\* C30: at most one measurement listener is attached, and one is attached
\* if and only if isMeasuring is true.
C30_OneListenerIffMeasuring ==
    /\ listeners <= 1
    /\ (listeners = 1) <=> measurementState.isMeasuring

\* C27: in the imported hook the reported heightCm does not decrease over a
\* processed sample of a measurement session.
C27_ImportedHeightMonotone ==
    [][(nEvents' # nEvents /\ probe'.processed)
          => measurementState'.heightCm >= measurementState.heightCm]_vars

C32_FirstCalibrateOnlyRequestsPermission ==
    [][/\ \A o \in PermissionOutcomes :
              (~permissionGranted /\ calibrate(o))
                  => /\ ~measurementState'.isCalibrating
                     /\ calibs' = <<>>
                     /\ ~refs'.hasCalibratedRef
                     /\ permissionGranted' = (o = "granted")
       /\ Len(calibs') > Len(calibs) => permissionGranted
       /\ (refs'.hasCalibratedRef /\ ~refs.hasCalibratedRef)
              => (calibrateTimeout /\ permissionGranted)]_vars

\* permission has been granted and no calibration window has been opened yet
C32_Witness ==
    /\ permissionGranted
    /\ error = NoError
    /\ calibs = <<>>
    /\ ~measurementState.isCalibrating
    /\ ~refs.hasCalibratedRef
    /\ measurementState = InitialState

\* C33: a processed sample that is classified stationary has had its gravity
\* candidate accepted: no sample is stationary and leaves the estimate
\* frozen.
C33_StationaryImpliesGravityAccepted ==
    (probe.processed /\ probe.stationary)
        => /\ probe.allowGUpdate
           /\ refs.gravityRef = GCandidate(probe.gPrev, probe.gMeas)

\* a stationary sample of a slightly tilted device moved the estimate
C33_Witness ==
    /\ probe.processed
    /\ probe.stationary
    /\ probe.rotMag > 0
    /\ refs.gravityRef # probe.gPrev
    /\ refs.gravityRef = GCandidate(probe.gPrev, probe.gMeas)

\* C34: the imperial conversion is well-formed for every reportable height
\* (0 to 300 cm in steps of 0.1 cm): heightFt is a non-negative integer and
\* 0 <= heightInches < 12; the inches never round up to 12.0.
C34_ImperialWellFormed ==
    /\ measurementState.heightCm \in 0..3000
    /\ measurementState.heightFt \in Nat
    /\ 0 <= measurementState.heightInches
    /\ measurementState.heightInches < 120

\* C36: the time delta with which a sample is processed lies in
\* [0.005, 0.05] s: it is the event's interval when that is a positive
\* number, otherwise the wall-clock time since the previous event, otherwise
\* 0.02 s for the first event of the session, clamped to that range.  (In
\* TimingSpec exactly one event, the calibration sample, precedes the
\* session.)
C36_DtClamped ==
    [][\A e \in TimingEvents :
          (listeners > 0 /\ e.hasAg /\ DeviceMotion(e))
              => LET raw == IF e.interval > 0 THEN e.interval
                            ELSE IF nEvents > 1 THEN now' - now
                            ELSE DtDefault
                 IN  /\ probe'.processed
                     /\ DtMin <= probe'.dt
                     /\ probe'.dt <= DtMax
                     /\ probe'.dt = (IF raw < DtMin THEN DtMin
                                     ELSE IF raw > DtMax THEN DtMax ELSE raw)]_vars

\* the first sample of a session was processed 300 ms after an event without
\* a reading, with its delta cut to 0.05 s
C36_Witness ==
    /\ probe.processed
    /\ probe.dt = DtMax
    /\ refs.totalSamplesRef = 1
    /\ nEvents = 3
    /\ refs.velocityRef > 0
    /\ now = StartClock + 2 * Gap + 300

\* C35: in the conservative variant, after every processed sample velocity
\* lies in [0, 80] cm/s and the accumulated height in [0, 250] cm, the
\* height is not below what it was before the sample, and the published
\* confidence is 95 when the sample is stationary and the height it
\* publishes is above 10 cm, and 75 otherwise.
C35_ConservativeBounds ==
    [][(nEvents' # nEvents /\ probe'.processed)
          => /\ 0 <= refs'.velocityRef /\ refs'.velocityRef <= 8000
             /\ 0 <= refs'.totalHeightRef /\ refs'.totalHeightRef <= 25000000
             /\ refs'.totalHeightRef >= refs.totalHeightRef
             /\ measurementState'.confidence =
                    IF probe'.stationary /\ measurementState'.heightCm > 100
                    THEN 950 ELSE 750]_vars

\* a stationary sample was published with confidence 95 after a climb at
\* the velocity limit
C35_Witness ==
    /\ probe.processed
    /\ probe.stationary
    /\ refs.velocityRef = 8000
    /\ refs.totalHeightRef > 10000000
    /\ measurementState.confidence = 950

=============================================================================
